---- MODULE Spec2Model ----
(***************************************************************************)
(* Model of src/src/main.rs: a benchmark that issues TX_SIMS               *)
(* simulate_transaction calls through a rayon pool (blocking client), then *)
(* sleeps, then issues TX_SIMS calls as tasks spawned in a                 *)
(* tokio_scoped::scope (non-blocking client), and prints both durations.   *)
(*                                                                         *)
(* Threads of the program: the main thread (runs the future of main under  *)
(* block_on), the workers of the global rayon pool, and the worker thread  *)
(* of the tokio runtime.  The remote endpoint is the environment: it       *)
(* answers each call with one of Outcomes.                                 *)
(*                                                                         *)
(* TX_SIMS is 16 and the pool size is 1 in the source; the batch size n    *)
(* and the pool size num_threads are drawn from 0..MaxSims and             *)
(* 1..MaxThreads so that the properties stated for every batch size and    *)
(* pool size are checked for several of them.                              *)
(***************************************************************************)
EXTENDS Integers, FiniteSets, Sequences, TLC

MaxSims == 3
MaxThreads == 2

VARIABLES
    n,            \* TX_SIMS, the batch size
    num_threads,  \* size of the global rayon pool (0: not built yet)
    pc,           \* position of the main thread
    sync,         \* per synchronous call: its status
    sync_res,     \* per synchronous call: what simulate_transaction returned
    task,         \* per asynchronous unit: its status
    task_res,     \* per asynchronous unit: what simulate_transaction returned
    sync_pb,      \* ProgressBar of the synchronous batch
    async_pb,     \* ProgressBar of the asynchronous batch
    clock,        \* the monotonic clock: the events that have happened
    sync_timer,   \* Instant::now() of line 44
    sync_time,    \* sync_timer.elapsed() of line 53
    async_timer,  \* Instant::now() of line 60
    async_time,   \* async_timer.elapsed() of line 74
    issued,       \* number of simulate_transaction requests sent
    stdout        \* lines printed

vars == <<n, num_threads, pc, sync, sync_res, task, task_res, sync_pb,
          async_pb, clock, sync_timer, sync_time, async_timer, async_time,
          issued, stdout>>

\* What the remote evaluator can answer: the sanitize failure of the comment
\* at lines 36-41, any other error, or a successful simulation.
Outcomes == {"ErrSanitize", "ErrOther", "Ok"}

\* The range 0..TX_SIMS of lines 45 and 62 (n elements).
\* (UnitsInclusive: the faulty range 0..=TX_SIMS, one element too many.)
UnitsInclusive == 0..n
Units == 1..n

\* A clock event, and the value of a timer or duration not taken yet.
Ev(src, id, what) == [src |-> src, id |-> id, what |-> what]
Unset == {Ev("unset", 0, "unset")}

\* Instant::elapsed: what happened on the clock since the instant was taken.
Elapsed(instant) == clock \ instant

\* ProgressBar::new, ProgressBar::inc(1), ProgressBar::finish.
NewBar == [pos |-> 0, finished |-> FALSE]
Inc(pb) == [pb EXCEPT !.pos = @ + 1]
Finish(pb) == [pb EXCEPT !.finished = TRUE]

Init ==
    /\ n \in 0..MaxSims
    /\ num_threads = 0
    /\ pc = "configure"
    /\ sync = [i \in Units |-> "pending"]
    /\ sync_res = [i \in Units |-> "none"]
    /\ task = [i \in Units |-> "unspawned"]
    /\ task_res = [i \in Units |-> "none"]
    /\ sync_pb = NewBar
    /\ async_pb = NewBar
    /\ clock = {}
    /\ sync_timer = Unset
    /\ sync_time = Unset
    /\ async_timer = Unset
    /\ async_time = Unset
    /\ issued = 0
    /\ stdout = <<>>

\* Lines 23-34: build the global pool, the clients and the progress bars.
Configure ==
    /\ pc = "configure"
    /\ num_threads' \in 1..MaxThreads
    /\ sync_pb' = NewBar
    /\ async_pb' = NewBar
    /\ pc' = "sync_timer"
    /\ UNCHANGED <<n, sync, sync_res, task, task_res, clock, sync_timer,
                   sync_time, async_timer, async_time, issued, stdout>>

\* Line 44, and the entry into for_each_with: the job is injected into the
\* pool and the main thread blocks.
StartSync ==
    /\ pc = "sync_timer"
    /\ sync_timer' = clock
    /\ pc' = "sync_batch"
    /\ UNCHANGED <<n, num_threads, sync, sync_res, task, task_res, sync_pb,
                   async_pb, clock, sync_time, async_timer, async_time,
                   issued, stdout>>

Running == {i \in Units : sync[i] = "running"}

\* A pool worker is free to take an item.
\* (Faulty variants: WorkerFreeUnbounded ignores the pool size;
\* WorkerFreeExcludingCaller has the blocked caller occupy one worker.)
WorkerFreeUnbounded == TRUE
WorkerFreeExcludingCaller == Cardinality(Running) < num_threads - 1
WorkerFree == Cardinality(Running) < num_threads

\* Lines 48-49: a free pool worker takes an item, builds the transaction and
\* sends the request; the worker blocks until the answer.
SyncIssue(i) ==
    /\ pc = "sync_batch"
    /\ sync[i] = "pending"
    /\ WorkerFree
    /\ sync' = [sync EXCEPT ![i] = "running"]
    /\ clock' = clock \cup {Ev("sync", i, "issue")}
    /\ issued' = issued + 1
    /\ UNCHANGED <<n, num_threads, pc, sync_res, task, task_res, sync_pb,
                   async_pb, sync_timer, sync_time, async_timer, async_time,
                   stdout>>

\* Lines 49-51: the blocking call returns; expect_err panics on Ok (the panic
\* is caught by the pool and kept for the caller), otherwise the bar advances.
\* (SyncRespondNoInc: faulty variant that advances the bar only for the
\* sanitize failure.)
SyncRespondNoInc(i, out) ==
    /\ pc = "sync_batch"
    /\ sync[i] = "running"
    /\ sync_res' = [sync_res EXCEPT ![i] = out]
    /\ clock' = clock \cup {Ev("sync", i, "response")}
    /\ sync' = [sync EXCEPT ![i] = IF out = "Ok" THEN "panicked" ELSE "done"]
    /\ sync_pb' = IF out = "ErrSanitize" THEN Inc(sync_pb) ELSE sync_pb
    /\ UNCHANGED <<n, num_threads, pc, task, task_res, async_pb, sync_timer,
                   sync_time, async_timer, async_time, issued, stdout>>
SyncRespond(i, out) ==
    /\ pc = "sync_batch"
    /\ sync[i] = "running"
    /\ sync_res' = [sync_res EXCEPT ![i] = out]
    /\ clock' = clock \cup {Ev("sync", i, "response")}
    /\ sync' = [sync EXCEPT ![i] = IF out = "Ok" THEN "panicked" ELSE "done"]
    /\ sync_pb' = IF out = "Ok" THEN sync_pb ELSE Inc(sync_pb)
    /\ UNCHANGED <<n, num_threads, pc, task, task_res, async_pb, sync_timer,
                   sync_time, async_timer, async_time, issued, stdout>>

\* A panic unwinds out of the sequential part of the iteration it happened
\* in: items of that part that have not started are never run.  Parts split
\* off earlier still run (SyncIssue stays enabled).
SyncSkip(i) ==
    /\ pc = "sync_batch"
    /\ sync[i] = "pending"
    /\ \E j \in Units : sync[j] = "panicked"
    /\ sync' = [sync EXCEPT ![i] = "skipped"]
    /\ UNCHANGED <<n, num_threads, pc, sync_res, task, task_res, sync_pb,
                   async_pb, clock, sync_timer, sync_time, async_timer,
                   async_time, issued, stdout>>

\* for_each_with returns to the main thread when no item is pending or
\* running.
\* (SyncSettledEarly: faulty variant that returns after the first item.)
SyncSettledEarly == \E i \in Units : sync[i] \in {"done", "panicked", "skipped"}
SyncSettled == \A i \in Units : sync[i] \in {"done", "panicked", "skipped"}

\* Lines 45-54: for_each_with returns.  A kept panic is resumed in the main
\* thread, which ends the process; otherwise the duration is read and the bar
\* is finished.
SyncJoin ==
    /\ pc = "sync_batch"
    /\ SyncSettled
    /\ IF \E i \in Units : sync[i] = "panicked"
       THEN /\ pc' = "aborted"
            /\ UNCHANGED <<sync_time, sync_pb>>
       ELSE /\ sync_time' = Elapsed(sync_timer)
            /\ sync_pb' = Finish(sync_pb)
            /\ pc' = "sleep"
    /\ UNCHANGED <<n, num_threads, sync, sync_res, task, task_res, async_pb,
                   clock, sync_timer, async_timer, async_time, issued, stdout>>

\* Lines 56-57: the message, and the start of the 20 s sleep.
SleepBegin ==
    /\ pc = "sleep"
    /\ stdout' = Append(stdout, "Sleeping to wait for mb rpc rate limits")
    /\ clock' = clock \cup {Ev("sleep", 0, "begin")}
    /\ pc' = "sleeping"
    /\ UNCHANGED <<n, num_threads, sync, sync_res, task, task_res, sync_pb,
                   async_pb, sync_timer, sync_time, async_timer, async_time,
                   issued>>

\* Line 57: the sleep ends.
SleepEnd ==
    /\ pc = "sleeping"
    /\ clock' = clock \cup {Ev("sleep", 0, "end")}
    /\ pc' = "async_timer"
    /\ UNCHANGED <<n, num_threads, sync, sync_res, task, task_res, sync_pb,
                   async_pb, sync_timer, sync_time, async_timer, async_time,
                   issued, stdout>>

\* Lines 60-61: the instant is taken and the scope closure is entered.
StartAsync ==
    /\ pc = "async_timer"
    /\ async_timer' = clock
    /\ pc' = "scope"
    /\ UNCHANGED <<n, num_threads, sync, sync_res, task, task_res, sync_pb,
                   async_pb, clock, sync_timer, sync_time, async_time,
                   issued, stdout>>

\* Lines 62-65: one iteration of the loop in the scope closure: the next unit
\* is spawned on the runtime, where the worker thread may poll it at once.
ScopeSpawn(i) ==
    /\ pc = "scope"
    /\ task[i] = "unspawned"
    /\ \A j \in Units : j < i => task[j] # "unspawned"
    /\ task' = [task EXCEPT ![i] = "queued"]
    /\ UNCHANGED <<n, num_threads, pc, sync, sync_res, task_res, sync_pb,
                   async_pb, clock, sync_timer, sync_time, async_timer,
                   async_time, issued, stdout>>

\* The runtime's worker thread can poll a queued unit: no unit occupies the
\* thread while it waits for its response.
\* (CanPollBlocking: faulty variant in which a unit waiting for its response
\* holds the thread, as a blocking call would.)
CanPollBlocking == \A j \in Units : task[j] # "awaiting"
CanPoll == TRUE

\* Lines 66-68: first poll of a unit by the worker thread: the transaction
\* is built, the request is sent, and the unit suspends at the await.
AsyncPoll(i) ==
    /\ task[i] = "queued"
    /\ CanPoll
    /\ task' = [task EXCEPT ![i] = "awaiting"]
    /\ clock' = clock \cup {Ev("async", i, "issue")}
    /\ issued' = issued + 1
    /\ UNCHANGED <<n, num_threads, pc, sync, sync_res, task_res, sync_pb,
                   async_pb, sync_timer, sync_time, async_timer, async_time,
                   stdout>>

\* Line 68: the response of the endpoint arrives and wakes the unit.
AsyncResponse(i, out) ==
    /\ task[i] = "awaiting"
    /\ task' = [task EXCEPT ![i] = "ready"]
    /\ task_res' = [task_res EXCEPT ![i] = out]
    /\ clock' = clock \cup {Ev("async", i, "response")}
    /\ UNCHANGED <<n, num_threads, pc, sync, sync_res, sync_pb, async_pb,
                   sync_timer, sync_time, async_timer, async_time, issued,
                   stdout>>

\* Lines 69-70: the worker thread polls the woken unit: expect_err panics on
\* Ok, otherwise the bar advances and the unit ends.  A panic of a spawned
\* task is caught by the runtime: the task ends, its future is dropped, and
\* no other thread unwinds.
AsyncResume(i) ==
    /\ task[i] = "ready"
    /\ IF task_res[i] = "Ok"
       THEN /\ task' = [task EXCEPT ![i] = "panicked"]
            /\ UNCHANGED async_pb
       ELSE /\ task' = [task EXCEPT ![i] = "done"]
            /\ async_pb' = Inc(async_pb)
    /\ UNCHANGED <<n, num_threads, pc, sync, sync_res, task_res, sync_pb,
                   clock, sync_timer, sync_time, async_timer, async_time,
                   issued, stdout>>

\* The scope is left when the loop has spawned every unit and every spawned
\* future has been dropped (it ran to its end or panicked).
\* (ScopeDrainedNoWait: faulty variant that spawns and forgets.)
ScopeDrainedNoWait == \A i \in Units : task[i] # "unspawned"
ScopeDrained == \A i \in Units : task[i] \in {"done", "panicked"}

\* Lines 73-75: the scope is dropped, which blocks the main thread until
\* ScopeDrained; then the duration is read and the bar is finished.
\* (ScopeJoinWrongTimer: faulty variant that reads sync_timer at line 74.)
ScopeJoinWrongTimer ==
    /\ pc = "scope"
    /\ ScopeDrained
    /\ async_time' = Elapsed(sync_timer)
    /\ async_pb' = Finish(async_pb)
    /\ pc' = "report"
    /\ UNCHANGED <<n, num_threads, sync, sync_res, task, task_res, sync_pb,
                   clock, sync_timer, sync_time, async_timer, issued, stdout>>
ScopeJoin ==
    /\ pc = "scope"
    /\ ScopeDrained
    /\ async_time' = Elapsed(async_timer)
    /\ async_pb' = Finish(async_pb)
    /\ pc' = "report"
    /\ UNCHANGED <<n, num_threads, sync, sync_res, task, task_res, sync_pb,
                   clock, sync_timer, sync_time, async_timer, issued, stdout>>

SyncLine == "    synchronous sims"
AsyncLine == "   asynchronous sims"

\* Lines 77-87: the report; main returns and the process exits with code 0.
Report ==
    /\ pc = "report"
    /\ stdout' = stdout \o <<"", "Results", SyncLine, AsyncLine>>
    /\ pc' = "exited"
    /\ UNCHANGED <<n, num_threads, sync, sync_res, task, task_res, sync_pb,
                   async_pb, clock, sync_timer, sync_time, async_timer,
                   async_time, issued>>

\* The steps of the main thread, of the pool workers, of the runtime's
\* worker thread, and of the endpoint answering an asynchronous call.
MainStep ==
    \/ Configure
    \/ StartSync
    \/ SyncJoin
    \/ SleepBegin
    \/ SleepEnd
    \/ StartAsync
    \/ \E i \in Units : ScopeSpawn(i)
    \/ ScopeJoin
    \/ Report

Next ==
    \/ MainStep
    \/ \E i \in Units : SyncIssue(i)
    \/ \E i \in Units, out \in Outcomes : SyncRespond(i, out)
    \/ \E i \in Units : SyncSkip(i)
    \/ \E i \in Units : AsyncPoll(i)
    \/ \E i \in Units, out \in Outcomes : AsyncResponse(i, out)
    \/ \E i \in Units : AsyncResume(i)

Spec == Init /\ [][Next]_vars

\* Every thread that can take a step eventually takes one, and every call in
\* flight is eventually answered.
FairSpec ==
    /\ Spec
    /\ WF_vars(MainStep)
    /\ WF_vars(\E i \in Units : SyncIssue(i))
    /\ WF_vars(\E i \in Units, out \in Outcomes : SyncRespond(i, out))
    /\ WF_vars(\E i \in Units : AsyncPoll(i))
    /\ WF_vars(\E i \in Units, out \in Outcomes : AsyncResponse(i, out))
    /\ WF_vars(\E i \in Units : AsyncResume(i))

TypeOK ==
    /\ n \in 0..MaxSims
    /\ num_threads \in 0..MaxThreads
    /\ pc \in {"configure", "sync_timer", "sync_batch", "sleep", "sleeping",
               "async_timer", "scope", "report", "exited", "aborted"}
    /\ \A i \in Units : sync[i] \in {"pending", "running", "done", "panicked", "skipped"}
    /\ \A i \in Units : task[i] \in {"unspawned", "queued", "awaiting", "ready", "done", "panicked"}
    /\ \A i \in Units : sync_res[i] \in Outcomes \cup {"none"}
    /\ \A i \in Units : task_res[i] \in Outcomes \cup {"none"}
    /\ issued \in 0..(2 * MaxSims)

----------------------------------------------------------------------------
\* Vocabulary of the properties.

Printed(line) == \E k \in 1..Len(stdout) : stdout[k] = line
SyncEvents == {Ev("sync", i, w) : i \in Units, w \in {"issue", "response"}}
AsyncEvents == {Ev("async", i, w) : i \in Units, w \in {"issue", "response"}}
SleepOver == Ev("sleep", 0, "end") \in clock
SyncReturned == pc \notin {"configure", "sync_timer", "sync_batch"}
AllSyncErr == \A i \in Units : sync_res[i] \in {"ErrSanitize", "ErrOther"}
SomeOk == \E i \in Units : sync_res[i] = "Ok" \/ task_res[i] = "Ok"
SomeOtherErr == \E i \in Units : sync_res[i] = "ErrOther" \/ task_res[i] = "ErrOther"

\* C1: when for_each_with has returned and every synchronous call returned
\* an error, sync_pb has been advanced exactly n times, whatever the pool
\* size and the order in which the workers ran the calls.
C1_SyncProgressExactlyN ==
    (SyncReturned /\ AllSyncErr) => sync_pb.pos = n

C1_Witness ==
    /\ pc = "sleep"
    /\ n >= 2
    /\ num_threads = 2
    /\ AllSyncErr
    /\ sync_pb.pos = n

\* C2: once async_time has been read (control is past the scope), no spawned
\* unit is unspawned, queued, awaiting or ready: each has run to its end.
C2_ScopeJoinsAllUnits ==
    async_time # Unset => \A i \in Units : task[i] \in {"done", "panicked"}

C2_Witness ==
    /\ async_time # Unset
    /\ n >= 2
    /\ \A i \in Units : task[i] = "done"

\* C3 (as claimed): if any call of either batch returned success, the
\* asynchronous line is never printed and the process never exits normally.
C3_AbortOnSuccess ==
    SomeOk => (~Printed(AsyncLine) /\ pc # "exited")

\* C4 (as claimed): a call that returned an error other than the sanitize
\* failure does not advance a progress bar, and after such a call the report
\* is never printed.
C4_AbortOnOtherError ==
    /\ sync_pb.pos <= Cardinality({i \in Units : sync_res[i] = "ErrSanitize"})
    /\ async_pb.pos <= Cardinality({i \in Units : task_res[i] = "ErrSanitize"})
    /\ SomeOtherErr => (~Printed(SyncLine) /\ ~Printed(AsyncLine))

\* C5: under fairness, unless some call returns something else than the
\* sanitize failure, the process eventually has printed both lines and
\* exited normally with all 2n calls issued and none outstanding.
AllCallsFinished ==
    /\ \A i \in Units : sync[i] = "done" /\ task[i] = "done"
    /\ issued = 2 * n
ExitedWithReport ==
    /\ pc = "exited"
    /\ Printed(SyncLine)
    /\ Printed(AsyncLine)
    /\ AllCallsFinished
C5_RunsToCompletion ==
    <>((SomeOk \/ SomeOtherErr) \/ ExitedWithReport)

C5_Witness ==
    /\ ExitedWithReport
    /\ ~SomeOk
    /\ ~SomeOtherErr
    /\ n >= 2
    /\ num_threads = 1

\* C6: the batches run one after the other in a fixed order: a unit of the
\* asynchronous batch is spawned only when the pool is configured, every
\* synchronous call has completed and the sleep is over; the sleep begins
\* only when every synchronous call has completed; the report is printed only
\* when both batches have completed.
C6_LinearOrder ==
    /\ (\E i \in Units : sync[i] # "pending") => num_threads >= 1
    /\ (Ev("sleep", 0, "begin") \in clock) => \A i \in Units : sync[i] = "done"
    /\ (\E i \in Units : task[i] # "unspawned") =>
          ((\A j \in Units : sync[j] = "done") /\ SleepOver)
    /\ (Printed(SyncLine) \/ Printed(AsyncLine)) =>
          /\ SleepOver
          /\ \A i \in Units : sync[i] = "done"
          /\ \A i \in Units : task[i] \in {"done", "panicked"}

C6_Witness ==
    /\ n >= 2
    /\ \E i \in Units : task[i] = "awaiting"
    /\ \E i \in Units : task[i] = "unspawned"

\* C7: with n = 0 no call is issued, no progress bar advances, both runners
\* return without waiting (their joins are enabled as soon as they are
\* reached, and both durations are empty), and under fairness the process
\* reaches the report and exits normally.
ZeroBatchOK ==
    /\ issued = 0
    /\ sync_pb.pos = 0
    /\ async_pb.pos = 0
    /\ pc # "aborted"
    /\ pc = "sync_batch" => SyncSettled
    /\ pc = "scope" => ScopeDrained
    /\ sync_time # Unset => sync_time = {}
    /\ async_time # Unset => async_time = {}
C7_EmptyBatch ==
    /\ [](n = 0 => ZeroBatchOK)
    /\ (n = 0) ~> (pc = "exited" /\ Printed(AsyncLine))

C7_Witness ==
    /\ n = 0
    /\ pc = "exited"
    /\ sync_time = {}
    /\ async_time = {}

\* C8: the number of synchronous calls in flight never exceeds the pool size
\* fixed by Configure; with the pool of size 1 at most one is in flight.
C8_PoolBound ==
    /\ Cardinality(Running) <= num_threads
    /\ num_threads = 1 => \A i, j \in Running : i = j

C8_Witness ==
    /\ num_threads = 1
    /\ Cardinality(Running) = 1
    /\ \E i \in Units : sync[i] = "pending"

C10_IntervalsCoverOwnBatch ==
    /\ sync_timer = Unset => clock \cap SyncEvents = {}
    /\ sync_timer # Unset => sync_timer \cap SyncEvents = {}
    /\ (Ev("sleep", 0, "begin") \in clock) => sync_time # Unset
    /\ sync_time # Unset => sync_time = SyncEvents
    /\ async_timer = Unset => clock \cap AsyncEvents = {}
    /\ async_timer # Unset => (SleepOver /\ Ev("sleep", 0, "end") \in async_timer)
    /\ async_time # Unset => async_time = AsyncEvents

C10_Witness ==
    /\ n >= 2
    /\ pc = "report"
    /\ sync_time = SyncEvents
    /\ async_time = AsyncEvents
====
